---- MODULE Spec2Model ----
(***************************************************************************)
(* Media materialization and URL rewriting of ulf-backend.                 *)
(*                                                                         *)
(* The model covers the read handlers that lazily download a Cloudinary    *)
(* asset into client/uploads (routes/posts.js, routes/member.js,           *)
(* routes/team.js), the fire-and-forget write-back of the rewritten URL,   *)
(* and the handlers that unlink cached files (DELETE/PUT /posts/:id,       *)
(* DELETE /members/:id).  Handlers are split at their await points: the    *)
(* steps of different requests interleave as they do on the event loop.    *)
(***************************************************************************)
EXTENDS Integers, Sequences, FiniteSets, TLC

(***************************************************************************)
(* Bounds of the model.                                                    *)
(***************************************************************************)
NumChunks == 1      \* pieces in which a response body reaches the write stream
MaxOps == 2         \* requests handled in one behaviour
MaxStamps == 2      \* distinct values of Date.now() seen by a migration run

(***************************************************************************)
(* Program constant: fetchWithRedirect(url, redirectsLeft = 3).            *)
(***************************************************************************)
DefaultRedirects == 3

ReqIds == 1..MaxOps
Bases == {"http://b1", "http://b2"}

(***************************************************************************)
(* Remote URLs.  A URL is host + directory segments + basename; the        *)
(* basename is a stem and an extension (possibly empty).                   *)
(*   U1  https://res.cloudinary.com/demo/image/upload/v1/a.jpg             *)
(*   U2  https://res.cloudinary.com/demo/image/upload/v2/a.JPG             *)
(*   U3  https://res.cloudinary.com/demo/video/upload/v1/clips/c.mp4       *)
(*   U4  https://res.cloudinary.com/v7/ulf_team/abcd                       *)
(*   L1  https://old.example/uploads/posts/images/1700000000001-cloudinary.jpg *)
(* L1 is the URL of an uploaded file whose original name held the word     *)
(* "cloudinary".  Two more stored strings are not fetched by anything:     *)
(*   X1  https://example.com/pic.png                                       *)
(*   X2  hello world                                                       *)
(*   T1  https://cdn.example.com/v123/ulf_team/abcd.jpg                    *)
(* U1 and U2 are distinct assets that derive the same post filename.       *)
(***************************************************************************)
UrlIds == {"U1", "U2", "U3", "U4", "L1"}
PlainIds == {"X1", "X2", "T1"}

UrlOf(u) ==
  CASE u = "U1" -> [host |-> "res.cloudinary.com",
                    segs |-> <<"demo", "image", "upload", "v1">>,
                    stem |-> "a", ext |-> ".jpg"]
    [] u = "U2" -> [host |-> "res.cloudinary.com",
                    segs |-> <<"demo", "image", "upload", "v2">>,
                    stem |-> "a", ext |-> ".JPG"]
    [] u = "U3" -> [host |-> "res.cloudinary.com",
                    segs |-> <<"demo", "video", "upload", "v1", "clips">>,
                    stem |-> "c", ext |-> ".mp4"]
    [] u = "U4" -> [host |-> "res.cloudinary.com",
                    segs |-> <<"v7", "ulf_team">>,
                    stem |-> "abcd", ext |-> ""]
    [] u = "L1" -> [host |-> "old.example",
                    segs |-> <<"uploads", "posts", "images">>,
                    stem |-> "1700000000001-cloudinary", ext |-> ".jpg"]
    [] u = "X1" -> [host |-> "example.com",
                    segs |-> <<>>, stem |-> "pic", ext |-> ".png"]
    [] u = "T1" -> [host |-> "cdn.example.com",
                    segs |-> <<"v123", "ulf_team">>,
                    stem |-> "abcd", ext |-> ".jpg"]
    [] u = "X2" -> [host |-> "",
                    segs |-> <<>>, stem |-> "hello world", ext |-> ""]

\* String.prototype.toLowerCase on an extension
ToLower(e) ==
  CASE e = ".JPG" -> ".jpg"
    [] e = ".MP4" -> ".mp4"
    [] OTHER -> e

\* /^v\d+$/ on one path segment
IsVersionSeg(s) == s \in {"v1", "v2", "v7"}

RECURSIVE JoinWith(_, _)
\* the segments of a path with every "/" replaced by sep
JoinWith(segs, sep) ==
  IF segs = <<>> THEN ""
  ELSE IF Len(segs) = 1 THEN Head(segs)
  ELSE Head(segs) \o sep \o JoinWith(Tail(segs), sep)

RECURSIVE IndexOf(_, _, _)
\* least i >= from with segs[i] = s, or 0
IndexOf(segs, s, from) ==
  IF from > Len(segs) THEN 0
  ELSE IF segs[from] = s THEN from
  ELSE IndexOf(segs, s, from + 1)

\* src.includes("cloudinary"): the test reads the whole text of the URL
IncludesCloudinary(u) ==
  \/ UrlOf(u).host = "res.cloudinary.com"
  \/ UrlOf(u).stem = "1700000000001-cloudinary"

\* p.split("/upload/")[1] || p, as directory segments; the flag tells
\* whether the pathname's leading "/" is still part of the result
AfterUpload(u) ==
  LET segs == UrlOf(u).segs
      i == IndexOf(segs, "upload", 1)
      j == IF i = 0 THEN 0 ELSE IndexOf(segs, "upload", i + 1)
  IN  IF i = 0 THEN [dirs |-> segs, slash |-> TRUE]
      ELSE [dirs |-> SubSeq(segs, i + 1, (IF j = 0 THEN Len(segs) ELSE j - 1)),
            slash |-> FALSE]

\* afterUpload.replace(/^v\d+\//, "")
NoVersion(a) ==
  IF ~a.slash /\ a.dirs # <<>> /\ IsVersionSeg(Head(a.dirs))
  THEN [a EXCEPT !.dirs = Tail(a.dirs)]
  ELSE a

\* stableFilenameFromCloudinary of routes/posts.js
stableFilenameFromCloudinary(u) ==
  LET nv == NoVersion(AfterUpload(u))
      ext == IF UrlOf(u).ext = "" THEN ".jpg" ELSE UrlOf(u).ext
      name == JoinWith(nv.dirs \o <<UrlOf(u).stem>>, "-")
      safe == IF nv.slash THEN "-" \o name ELSE name
  IN  safe \o ToLower(ext)

\* a filename derivation that keeps the directories of the URL
stableFilenameFromUrl_Mut(u) == stableFilenameFromCloudinary(u)

\* stableFilenameFromUrl of routes/member.js and routes/team.js
stableFilenameFromUrl(u) ==
  LET ext == IF UrlOf(u).ext = "" THEN ".jpg" ELSE UrlOf(u).ext
  IN  UrlOf(u).stem \o ToLower(ext)

\* isVideoUrl of routes/posts.js
isVideoUrl(u) ==
  LET segs == UrlOf(u).segs
      i == IndexOf(segs, "upload", 1)
  IN  \/ (i > 1 /\ segs[i - 1] = "video")
      \/ ToLower(UrlOf(u).ext) \in {".mp4", ".mov", ".webm", ".avi"}


(***************************************************************************)
(* Stored media values.  A URL value is a remote URL or a local one,       *)
(* `${base}/uploads/${rel}`; origin remembers the remote URL a local value *)
(* was materialized from ("" for none).  A stored item is a legacy string  *)
(* or a {full, thumb} object whose two fields hold the same URL.           *)
(***************************************************************************)
Remote(u) == [k |-> "remote", id |-> u, base |-> "", rel |-> "", origin |-> ""]
LocalUrl(b, rel, o) == [k |-> "local", id |-> "", base |-> b, rel |-> rel, origin |-> o]
Item(form, url) == [form |-> form, url |-> url]

\* a stored string that is neither remote-provider nor local (X1, X2), and the
\* src of a value that has no full or thumb string at all (form "raw": an
\* object without these fields, a number, null)
Plain(u) == [k |-> "plain", id |-> u, base |-> "", rel |-> "", origin |-> ""]
NoUrl == [k |-> "none", id |-> "", base |-> "", rel |-> "", origin |-> ""]

\* the upload whose URL is L1
CloudRel == "posts/images/1700000000001-cloudinary.jpg"

\* const src = typeof m === "string" ? m : m?.full || m?.thumb, as the id of
\* its text ("" for a text no test of the handlers tells from another)
SrcOf(url) ==
  CASE url.k \in {"remote", "plain"} -> url.id
    [] url.k = "local" /\ url.rel = CloudRel -> "L1"
    [] OTHER -> ""

\* typeof src === "string" && src.includes("cloudinary")
IsCloudinarySrc(url) == SrcOf(url) # "" /\ IncludesCloudinary(SrcOf(url))

\* extractLocalRelative / extractUploadsRel: the text after "/uploads/", or ""
extractLocalRelative(url) == IF url.k = "local" THEN url.rel ELSE ""

Posts == {"p1", "p2"}
Members == {"m1", "m2"}
Teams == {"t1", "t2"}
Entities == Posts \cup Members \cup Teams

PostKinds == {"list", "detail", "delete", "put"}
MemberKinds == {"members", "mdelete"}

\* the destination of a download, relative to the uploads root
PostRel(u) ==
  "posts/" \o (IF isVideoUrl(u) THEN "videos" ELSE "images") \o "/"
           \o stableFilenameFromCloudinary(u)
MemberRel(u) == "members/" \o stableFilenameFromUrl(u)
TeamRel(u) == "team/" \o stableFilenameFromUrl(u)
DestRel(kind, u) ==
  IF kind \in MemberKinds THEN MemberRel(u)
  ELSE IF kind = "team" THEN TeamRel(u) ELSE PostRel(u)

\* the values Date.now() takes while a migration script runs, and their text
Stamps == 1..MaxStamps
StampText(n) ==
  CASE n = 1 -> "1700000000101" [] n = 2 -> "1700000000102"
    [] n = 3 -> "1700000000103" [] OTHER -> "1700000000104"

\* an extension without its dot
Bare(e) == CASE e = ".JPG" -> "JPG" [] e = ".MP4" -> "MP4" [] OTHER -> ""

\* migratePosts of scripts/migrateCloudinaryToLocal.js:
\*   ext = extFromUrl(src); base = path.basename(src, ext).replace(...);
\*   filename = `${Date.now()}-${base}${ext}`
\* path.basename strips ext only where the name ends in it letter for letter
MigrateFilename(n, u) ==
  LET e0 == UrlOf(u).ext
      ext == IF e0 = "" THEN ".jpg" ELSE ToLower(e0)
      base == IF e0 = "" \/ e0 = ext THEN UrlOf(u).stem
              ELSE UrlOf(u).stem \o "-" \o Bare(e0)
  IN  StampText(n) \o "-" \o base \o ext
MigrateRel(n, u) ==
  "posts/" \o (IF isVideoUrl(u) THEN "videos" ELSE "images") \o "/"
           \o MigrateFilename(n, u)

Paths ==
  {PostRel(u) : u \in UrlIds} \cup {MemberRel(u) : u \in UrlIds}
    \cup {MigrateRel(n, u) : n \in Stamps, u \in UrlIds}
    \cup {TeamRel(u) : u \in UrlIds}
    \cup {"posts/images/1700000000000-up.jpg", CloudRel}

NoChunks == [i \in 1..NumChunks |-> ""]
Absent == [ex |-> FALSE, c |-> NoChunks]
EmptyFile == [ex |-> TRUE, c |-> NoChunks]

VARIABLES
  db,        \* entity id -> [alive, media]: the Post and Member collections
  disk,      \* rel path -> [ex, c]: the files under client/uploads
  req,       \* request number -> the handler that serves it
  wbs,       \* the updateOne write-backs issued so far, each with its outcome
  ops,       \* requests started so far
  firstUrl   \* <<url, base>> -> the path under base/uploads/ of the local
             \* URL the first successful materialization returned ("" before)

vars == <<db, disk, req, wbs, ops, firstUrl>>

(***************************************************************************)
(* One media item's ensureLocalMedia / ensureLocalAvatar call.             *)
(*   pc:   skip   not a cloudinary URL, no call                            *)
(*         access awaiting fs.access(dest)                                 *)
(*         open   access failed; createWriteStream + first https.get next  *)
(*         wait   a GET is in flight                                       *)
(*         body   a 200 response is being piped into the file              *)
(*         closing  "finish" was emitted, file.close(resolve) is under way *)
(*         done   resolved      failed  rejected                           *)
(*   closed  the close of the write stream has completed                   *)
(*   left  redirectsLeft        reqs  HTTP requests issued                 *)
(*   written  chunks piped      att   the stream's file is still linked    *)
(*                                    at dest                              *)
(*   unl   an fs.unlink(dest) was issued and has not run yet               *)
(*   st    status of the last response (0 none, -1 the request's error     *)
(*         event)               loc   that response carried a Location     *)
(*   found dest was on disk when fs.access ran                             *)
(*   after a materialization of the same URL and base had completed when   *)
(*         fs.access ran                                                   *)
(*   url   the URL a redirect has led to (empty before the first redirect) *)
(***************************************************************************)
NewTask(item) ==
  [src |-> IF IsCloudinarySrc(item.url) THEN SrcOf(item.url) ELSE "",
   pc |-> IF IsCloudinarySrc(item.url) THEN "access" ELSE "skip",
   left |-> 0, reqs |-> 0, written |-> 0, att |-> FALSE, unl |-> FALSE,
   st |-> 0, loc |-> FALSE, found |-> FALSE, after |-> FALSE,
   closed |-> FALSE, url |-> [scheme |-> "", host |-> "", path |-> ""]]

Settled(t) == t.pc \in {"skip", "done", "failed"}

Idle ==
  [kind |-> "idle", ent |-> "", base |-> "", ents |-> <<>>, snap |-> <<>>,
   tasks |-> <<>>, cur |-> 0, pc |-> "idle", status |-> 0, body |-> <<>>,
   rm |-> {}, keep |-> <<>>, uerr |-> FALSE,
   path |-> "", origin |-> "", cwd |-> "", had |-> FALSE,
   bad |-> {}, dirs |-> {}]


\* requests are numbered in the order they arrive
Arrives(r) == r = ops + 1

TaskRel(rq, i) == DestRel(rq.kind, rq.tasks[i].src)

\* the tasks of a request that may take a step: Promise.all runs a post's
\* items side by side, the for loop of GET /members takes one member at a time
Active(rq, i) ==
  /\ rq.pc = "run"
  /\ i \in DOMAIN rq.tasks
  /\ (rq.kind \in {"members", "team"} => i = rq.cur)

\* a handler that downloads without looking at dest first
AccessOk_Mut(path) == FALSE

\* fs.access(dest) resolves
AccessOk(path) == disk[path].ex

\* a file leaves the directory: streams that hold it keep writing to a file
\* no path names any more
DetachAll(rq, path) ==
  [rq EXCEPT !.tasks =
     [i \in DOMAIN rq.tasks |->
        IF rq.tasks[i].att /\ TaskRel(rq, i) = path
        THEN [rq.tasks[i] EXCEPT !.att = FALSE]
        ELSE rq.tasks[i]]]

(***************************************************************************)
(* ensureLocalMedia, ensureLocalAvatar: try { await fs.access(dest) }       *)
(***************************************************************************)
Access(r, i) ==
  LET rq == req[r]
      t == rq.tasks[i]
      path == TaskRel(rq, i)
      seen == firstUrl[<<t.src, rq.base>>] # ""
  IN  /\ Active(rq, i)
      /\ t.pc = "access"
      /\ req' = [req EXCEPT ![r].tasks[i] =
                   [t EXCEPT !.pc = IF AccessOk(path) THEN "done" ELSE "open",
                             !.found = disk[path].ex, !.after = seen]]
      /\ UNCHANGED <<db, disk, wbs, ops, firstUrl>>

(***************************************************************************)
(* catch { new Promise(...) }: fsSync.createWriteStream(dest) creates the  *)
(* file or truncates the one that is there, fetchWithRedirect(src) issues  *)
(* the first GET with redirectsLeft = 3.                                   *)
(***************************************************************************)
Open(r, i) ==
  LET rq == req[r]
      t == rq.tasks[i]
      path == TaskRel(rq, i)
  IN  /\ Active(rq, i)
      /\ t.pc = "open"
      /\ disk' = [disk EXCEPT ![path] = EmptyFile]
      /\ req' = [req EXCEPT ![r].tasks[i] =
                   [t EXCEPT !.pc = "wait", !.att = TRUE,
                             !.left = DefaultRedirects, !.reqs = 1]]
      /\ UNCHANGED <<db, wbs, ops, firstUrl>>

\* a redirect test that forgets the hop budget
FollowsRedirect_Mut(status, loc, left) ==
  status >= 300 /\ status < 400 /\ loc

\* res.statusCode >= 300 && res.statusCode < 400 && res.headers.location
\*   && redirectsLeft > 0
FollowsRedirect(status, loc, left) ==
  status >= 300 /\ status < 400 /\ loc /\ left > 0

(***************************************************************************)
(* The response callback of https.get.  A redirect that is followed issues *)
(* the next GET; any other status than 200 closes the stream, issues       *)
(* fs.unlink(dest) and rejects; a 200 starts res.pipe(file).               *)
(***************************************************************************)
Response(r, i, status, loc) ==
  LET rq == req[r]
      t == rq.tasks[i]
  IN  /\ Active(rq, i)
      /\ t.pc = "wait"
      /\ req' = [req EXCEPT ![r].tasks[i] =
                   IF FollowsRedirect(status, loc, t.left)
                   THEN [t EXCEPT !.left = t.left - 1, !.reqs = t.reqs + 1,
                                  !.st = status, !.loc = loc]
                   ELSE IF status # 200
                   THEN [t EXCEPT !.pc = "failed", !.unl = TRUE,
                                  !.st = status, !.loc = loc]
                   ELSE [t EXCEPT !.pc = "body", !.st = status, !.loc = loc]]
      /\ UNCHANGED <<db, disk, wbs, ops, firstUrl>>

(***************************************************************************)
(* .on("error", ...) of the request: file.close(), fs.unlink(dest) issued, *)
(* reject(err).  The socket can fail before a response or under the body.  *)
(***************************************************************************)
RequestError(r, i) ==
  LET rq == req[r]
      t == rq.tasks[i]
  IN  /\ Active(rq, i)
      /\ t.pc \in {"wait", "body"}
      /\ req' = [req EXCEPT ![r].tasks[i] =
                   [t EXCEPT !.pc = "failed", !.unl = TRUE, !.st = -1,
                             !.loc = FALSE]]
      /\ UNCHANGED <<db, disk, wbs, ops, firstUrl>>

(***************************************************************************)
(* res.pipe(file): one more piece of the body is written at the stream's   *)
(* own position.                                                           *)
(***************************************************************************)
WriteChunk(r, i) ==
  LET rq == req[r]
      t == rq.tasks[i]
      path == TaskRel(rq, i)
  IN  /\ Active(rq, i)
      /\ t.pc = "body"
      /\ t.written < NumChunks
      /\ disk' = IF t.att
                 THEN [disk EXCEPT ![path].c[t.written + 1] = t.src]
                 ELSE disk
      /\ req' = [req EXCEPT ![r].tasks[i].written = t.written + 1]
      /\ UNCHANGED <<db, wbs, ops, firstUrl>>

\* `${baseUrl}/uploads/posts/${video ? "videos" : "images"}/${filename}`,
\* `${baseUrl}/uploads/members/${filename}`
ResultUrl(rq, i) == LocalUrl(rq.base, TaskRel(rq, i), rq.tasks[i].src)

\* a handler that closes and resolves as soon as the response arrives
BodyComplete_Mut(t) == TRUE

\* the write stream emits "finish" once everything piped into it is written
BodyComplete(t) == t.written = NumChunks

(***************************************************************************)
(* file.on("finish", () => file.close(resolve)): the handler of "finish"   *)
(* asks for the close.                                                     *)
(***************************************************************************)
Finish(r, i) ==
  LET rq == req[r]
      t == rq.tasks[i]
  IN  /\ Active(rq, i)
      /\ t.pc = "body"
      /\ BodyComplete(t)
      /\ req' = [req EXCEPT ![r].tasks[i].pc = "closing"]
      /\ UNCHANGED <<db, disk, wbs, ops, firstUrl>>

(***************************************************************************)
(* The close has completed and its callback, resolve, runs.                *)
(***************************************************************************)
Closed(r, i) ==
  LET rq == req[r]
      t == rq.tasks[i]
      key == <<t.src, rq.base>>
  IN  /\ Active(rq, i)
      /\ t.pc = "closing"
      /\ req' = [req EXCEPT ![r].tasks[i].pc = "done",
                            ![r].tasks[i].closed = TRUE]
      /\ firstUrl' = IF firstUrl[key] = ""
                     THEN [firstUrl EXCEPT ![key] = ResultUrl(rq, i).rel]
                     ELSE firstUrl
      /\ UNCHANGED <<db, disk, wbs, ops>>

(***************************************************************************)
(* fsSync.unlink(dest, () => {}) runs: it was issued by the failure path   *)
(* and nothing waits for it.                                               *)
(***************************************************************************)
Unlink(r, i) ==
  LET rq == req[r]
      t == rq.tasks[i]
      path == TaskRel(rq, i)
  IN  /\ rq.pc # "idle"
      /\ i \in DOMAIN rq.tasks
      /\ t.unl
      /\ disk' = [disk EXCEPT ![path] = Absent]
      /\ req' = [q \in ReqIds |->
                   IF q = r
                   THEN [DetachAll(rq, path) EXCEPT !.tasks[i].unl = FALSE]
                   ELSE DetachAll(req[q], path)]
      /\ UNCHANGED <<db, wbs, ops, firstUrl>>


(***************************************************************************)
(* The media mapping of GET /posts and GET /posts/:id.                     *)
(***************************************************************************)
\* a catch branch that hands out the local URL although the download failed
OnFetchFailure_Mut(item) ==
  Item("obj", LocalUrl("http://b1", PostRel(item.url.id), item.url.id))

\* catch { return typeof m === "string" ? { full: src, thumb: src } : m; }
OnFetchFailure(item) == Item("obj", item.url)

\* a mapping that wraps every value it does not recognize
PassThrough_Mut(item) == Item("obj", item.url)

\* return typeof m === "string" ? { full: src, thumb: src } : m;
PassThrough(item) == IF item.form = "str" THEN Item("obj", item.url) ELSE item

MapItem(rq, i) ==
  LET item == rq.snap[i]
      t == rq.tasks[i]
      rel == extractLocalRelative(item.url)
  IN  IF t.pc = "done" THEN Item("obj", ResultUrl(rq, i))
      ELSE IF t.pc = "failed" THEN OnFetchFailure(item)
      ELSE IF rel # "" THEN Item("obj", LocalUrl(rq.base, rel, item.url.origin))
      ELSE PassThrough(item)

MappedMedia(rq) == [i \in DOMAIN rq.snap |-> MapItem(rq, i)]

\* let changed = false; ... changed = true
Changed(rq) ==
  \E i \in DOMAIN rq.snap :
     \/ rq.tasks[i].pc = "done"
     \/ (rq.tasks[i].pc = "skip" /\ extractLocalRelative(rq.snap[i].url) # "")

\* which read handlers persist the rewrite: GET /posts does
\* (if (changed) Post.updateOne(...)), GET /posts/:id has no such statement
WritesBack(kind) == kind = "list"

NewWb(r, i, e, media) ==
  [by |-> r, idx |-> i, ent |-> e, media |-> media, st |-> "pending", tries |-> 1]

(***************************************************************************)
(* GET /posts?limit=1&page=k (the page holds post e) and GET /posts/:id:   *)
(* Post.find / Post.findById(...).lean(), then Promise.all over the items. *)
(***************************************************************************)
StartRead(r, kind, e, b) ==
  /\ Arrives(r)
  /\ kind \in {"list", "detail"}
  /\ e \in Posts
  /\ kind = "list" => db[e].alive
  /\ ops' = ops + 1
  /\ req' = [req EXCEPT ![r] =
       IF db[e].alive
       THEN [Idle EXCEPT !.kind = kind, !.ent = e, !.base = b,
                         !.snap = db[e].media,
                         !.tasks = [i \in DOMAIN db[e].media |->
                                      NewTask(db[e].media[i])],
                         !.pc = "run"]
       ELSE [Idle EXCEPT !.kind = kind, !.ent = e, !.base = b,
                         !.pc = "responded", !.status = 400]]
  /\ UNCHANGED <<db, disk, wbs, firstUrl>>

(***************************************************************************)
(* Promise.all has resolved: if (changed) Post.updateOne(...).catch(...)   *)
(* is issued and not awaited, ok(res, ...) sends the response.             *)
(***************************************************************************)
FinishRead(r) ==
  LET rq == req[r]
  IN  /\ rq.pc = "run"
      /\ rq.kind \in {"list", "detail"}
      /\ \A i \in DOMAIN rq.tasks : Settled(rq.tasks[i])
      /\ req' = [req EXCEPT ![r].pc = "responded", ![r].status = 200,
                            ![r].body = MappedMedia(rq)]
      /\ wbs' = IF WritesBack(rq.kind) /\ Changed(rq)
                THEN wbs \cup {NewWb(r, 0, rq.ent, MappedMedia(rq))}
                ELSE wbs
      /\ UNCHANGED <<db, disk, ops, firstUrl>>

(***************************************************************************)
(* The updateOne of a write-back reaches the database.                     *)
(***************************************************************************)
WbApply(w) ==
  /\ w \in wbs
  /\ w.st = "pending"
  /\ db' = IF db[w.ent].alive THEN [db EXCEPT ![w.ent].media = w.media] ELSE db
  /\ wbs' = (wbs \ {w}) \cup {[w EXCEPT !.st = "ok"]}
  /\ UNCHANGED <<disk, req, ops, firstUrl>>

\* a handler that turns a rejected write-back into an error response
OnWriteBackError_Mut(rq) == [rq EXCEPT !.status = 500, !.body = <<>>]

\* .catch(() => {}) of the write-back: nothing happens to the request
OnWriteBackError(rq) == rq

(***************************************************************************)
(* The updateOne of a write-back is rejected by the database.              *)
(***************************************************************************)
WbFail(w) ==
  /\ w \in wbs
  /\ w.st = "pending"
  /\ wbs' = (wbs \ {w}) \cup {[w EXCEPT !.st = "failed"]}
  /\ req' = [req EXCEPT ![w.by] = OnWriteBackError(req[w.by])]
  /\ UNCHANGED <<db, disk, ops, firstUrl>>

(***************************************************************************)
(* isRelUsedByOtherPosts: Post.countDocuments with the pattern             *)
(* /uploads/<rel>$ on imageUrls.full, imageUrls.thumb and legacy strings;  *)
(* true when the query throws.                                             *)
(***************************************************************************)
isRelUsedByOtherPosts(rel, excludeId, dbOk) ==
  \/ ~dbOk
  \/ \E p \in Posts \ {excludeId} :
        /\ db[p].alive
        /\ \E i \in DOMAIN db[p].media : extractLocalRelative(db[p].media[i].url) = rel

(***************************************************************************)
(* DELETE /posts/:id, PUT /posts/:id (removeMedia = rm, no new files) and  *)
(* DELETE /members/:id load the document.                                  *)
(***************************************************************************)
StartWrite(r, kind, e, rm) ==
  /\ Arrives(r)
  /\ \/ kind = "delete" /\ e \in Posts /\ rm = {}
     \/ kind = "put" /\ e \in Posts /\ rm # {}
        /\ rm \subseteq {db[e].media[i].url : i \in DOMAIN db[e].media}
     \/ kind = "mdelete" /\ e \in Members /\ rm = {}
  /\ ops' = ops + 1
  /\ req' = [req EXCEPT ![r] =
       IF ~db[e].alive
       THEN [Idle EXCEPT !.kind = kind, !.ent = e, !.pc = "responded",
                         !.status = IF kind = "mdelete" THEN 404 ELSE 400]
       ELSE [Idle EXCEPT !.kind = kind, !.ent = e, !.snap = db[e].media,
                         !.rm = rm, !.cur = 1,
                         !.pc = IF kind = "mdelete"
                                   /\ extractLocalRelative(db[e].media[1].url) # ""
                                THEN "unlink" ELSE "check"]]
  /\ UNCHANGED <<db, disk, wbs, firstUrl>>

(***************************************************************************)
(* One turn of the for loop over the post's media, up to its await:        *)
(* usedElsewhere = await isRelUsedByOtherPosts(rel, post._id).             *)
(***************************************************************************)
CheckItem(r, dbOk) ==
  LET rq == req[r]
      item == rq.snap[rq.cur]
      rel == extractLocalRelative(item.url)
      kept == rq.kind = "put" /\ item.url \notin rq.rm
  IN  /\ rq.pc = "check"
      /\ rq.kind \in {"delete", "put"}
      /\ rq.cur <= Len(rq.snap)
      /\ req' = [req EXCEPT ![r] =
           IF kept THEN [rq EXCEPT !.keep = Append(rq.keep, item), !.cur = rq.cur + 1]
           ELSE IF rel = "" \/ isRelUsedByOtherPosts(rel, rq.ent, dbOk)
           THEN [rq EXCEPT !.cur = rq.cur + 1]
           ELSE [rq EXCEPT !.pc = "unlink"]]
      /\ UNCHANGED <<db, disk, wbs, ops, firstUrl>>

(***************************************************************************)
(* await fs.unlink(filePath).catch(() => {})                               *)
(***************************************************************************)
UnlinkItem(r) ==
  LET rq == req[r]
      rel == extractLocalRelative(rq.snap[rq.cur].url)
  IN  /\ rq.pc = "unlink"
      /\ disk[rel].ex
      /\ disk' = [disk EXCEPT ![rel] = Absent]
      /\ req' = [q \in ReqIds |->
                   IF q = r THEN [rq EXCEPT !.pc = "check", !.cur = rq.cur + 1]
                   ELSE DetachAll(req[q], rel)]
      /\ UNCHANGED <<db, wbs, ops, firstUrl>>

\* a handler that lets the rejection of fs.unlink reach its catch block
OnUnlinkError_Mut(rq) == [rq EXCEPT !.pc = "responded", !.status = 500]

\* .catch(() => {}) on fs.unlink: the handler goes on
OnUnlinkError(rq) == rq

(***************************************************************************)
(* fs.unlink(filePath) rejects: the file is not there (ENOENT) or may not  *)
(* be removed (EPERM, EBUSY).                                              *)
(***************************************************************************)
UnlinkItemFails(r) ==
  LET rq == req[r]
  IN  /\ rq.pc = "unlink"
      /\ req' = [req EXCEPT ![r] =
                   OnUnlinkError([rq EXCEPT !.pc = "check", !.cur = rq.cur + 1,
                                            !.uerr = TRUE])]
      /\ UNCHANGED <<db, disk, wbs, ops, firstUrl>>

(***************************************************************************)
(* After the loop: post.deleteOne() / member.deleteOne(), or post.save()   *)
(* with imageUrls = keep; then the response.                               *)
(***************************************************************************)
FinishWrite(r) ==
  LET rq == req[r]
  IN  /\ rq.pc = "check"
      /\ rq.cur > Len(rq.snap)
      /\ db' = IF rq.kind = "put"
               THEN (IF db[rq.ent].alive
                     THEN [db EXCEPT ![rq.ent].media = rq.keep] ELSE db)
               ELSE [db EXCEPT ![rq.ent].alive = FALSE]
      /\ req' = [req EXCEPT ![r].pc = "responded",
                            ![r].status = IF rq.kind = "put" /\ ~db[rq.ent].alive
                                          THEN 500 ELSE 200]
      /\ UNCHANGED <<disk, wbs, ops, firstUrl>>


(***************************************************************************)
(* GET /members: Member.find().sort(...), then a for loop that awaits      *)
(* ensureLocalAvatar for one member after the other.                       *)
(***************************************************************************)
MemberOrder == <<"m1", "m2">>

StartMembers(r, b) ==
  LET found == SelectSeq(MemberOrder, LAMBDA m : db[m].alive)
  IN  /\ Arrives(r)
      /\ ops' = ops + 1
      /\ req' = [req EXCEPT ![r] =
           [Idle EXCEPT !.kind = "members", !.base = b, !.ents = found,
                        !.snap = [i \in DOMAIN found |-> db[found[i]].media[1]],
                        !.tasks = [i \in DOMAIN found |->
                                     NewTask(db[found[i]].media[1])],
                        !.cur = 1,
                        !.pc = IF found = <<>> THEN "responded" ELSE "run",
                        !.status = IF found = <<>> THEN 200 ELSE 0]]
      /\ UNCHANGED <<db, disk, wbs, firstUrl>>

(***************************************************************************)
(* The rest of one turn of the loop: try { local = await ensureLocalAvatar *)
(* ...; if (local !== avatar) changed = true } catch {}; if (changed)      *)
(* Member.updateOne(...).catch(...); out.push(...).  After the last turn   *)
(* ok(res, { members: out }).                                              *)
(***************************************************************************)
MemberNext(r) ==
  LET rq == req[r]
      t == rq.tasks[rq.cur]
      avatar == IF t.pc = "done" THEN ResultUrl(rq, rq.cur) ELSE rq.snap[rq.cur].url
      last == rq.cur = Len(rq.snap)
  IN  /\ rq.pc = "run"
      /\ rq.kind \in {"members", "team"}
      /\ Settled(t)
      /\ req' = [req EXCEPT ![r].body = Append(rq.body, Item("str", avatar)),
                            ![r].cur = rq.cur + 1,
                            ![r].pc = IF last THEN "responded" ELSE "run",
                            ![r].status = IF last THEN 200 ELSE 0]
      /\ wbs' = IF avatar # rq.snap[rq.cur].url
                THEN wbs \cup {NewWb(r, rq.cur, rq.ents[rq.cur], <<Item("str", avatar)>>)}
                ELSE wbs
      /\ UNCHANGED <<db, disk, ops, firstUrl>>

(***************************************************************************)
(* Initial states: the collections hold documents that still reference     *)
(* Cloudinary, the uploads directories are empty, no request is running.   *)
(***************************************************************************)
NoDoc == [alive |-> FALSE, media |-> <<>>]
Doc(media) == [alive |-> TRUE, media |-> media]

\* a file that POST /posts saved under `${Date.now()}-${base}${ext}`
UploadRel == "posts/images/1700000000000-up.jpg"
Uploaded == [ex |-> TRUE, c |-> [i \in 1..NumChunks |-> "up"]]
FullFile(u) == [ex |-> TRUE, c |-> [i \in 1..NumChunks |-> u]]

InitRest ==
  /\ req = [r \in ReqIds |-> Idle]
  /\ wbs = {}
  /\ ops = 0

\* nothing has been materialized yet
Fresh(docs) ==
  /\ db = [e \in Entities |-> IF e \in DOMAIN docs THEN Doc(docs[e]) ELSE NoDoc]
  /\ disk = [p \in Paths |-> IF p = UploadRel THEN Uploaded ELSE Absent]
  /\ firstUrl = [k \in UrlIds \X Bases |-> ""]

\* an earlier GET /posts under base b has materialized u for post p1 and its
\* write-back has reached the database
Materialized(u, b, rest) ==
  /\ db = [e \in Entities |->
             IF e = "p1" THEN Doc(<<Item("obj", LocalUrl(b, PostRel(u), u))>>)
             ELSE IF e \in DOMAIN rest THEN Doc(rest[e]) ELSE NoDoc]
  /\ disk = [p \in Paths |->
               IF p = UploadRel THEN Uploaded
               ELSE IF p = PostRel(u) THEN FullFile(u) ELSE Absent]
  /\ firstUrl = [k \in UrlIds \X Bases |-> IF k = <<u, b>> THEN PostRel(u) ELSE ""]

Init ==
  /\ \/ Fresh([p1 |-> <<Item("obj", Remote("U1"))>>,
               p2 |-> <<Item("obj", Remote("U3"))>>])
     \/ Fresh([p1 |-> <<Item("str", Remote("U1")),
                        Item("obj", LocalUrl("http://b1", UploadRel, ""))>>,
               p2 |-> <<Item("obj", Remote("U2"))>>])
     \/ Materialized("U1", "http://b1", [p2 |-> <<Item("obj", Remote("U1"))>>])
  /\ InitRest

InitMembers ==
  /\ Fresh([m1 |-> <<Item("str", Remote("U1"))>>,
            m2 |-> <<Item("str", Remote("U1"))>>])
  /\ InitRest

(***************************************************************************)
(* The posts routes.  The remote host answers 200 or 404, or the           *)
(* connection fails.                                                       *)
(***************************************************************************)
Next ==
  \/ \E r \in ReqIds, kind \in {"list", "detail"}, e \in Posts, b \in Bases :
        StartRead(r, kind, e, b)
  \/ \E r \in ReqIds : \E i \in DOMAIN req[r].tasks : Access(r, i)
  \/ \E r \in ReqIds : \E i \in DOMAIN req[r].tasks : Open(r, i)
  \/ \E r \in ReqIds : \E i \in DOMAIN req[r].tasks :
        \E st \in {200, 404} : Response(r, i, st, FALSE)
  \/ \E r \in ReqIds : \E i \in DOMAIN req[r].tasks : RequestError(r, i)
  \/ \E r \in ReqIds : \E i \in DOMAIN req[r].tasks : WriteChunk(r, i)
  \/ \E r \in ReqIds : \E i \in DOMAIN req[r].tasks : Finish(r, i)
  \/ \E r \in ReqIds : \E i \in DOMAIN req[r].tasks : Closed(r, i)
  \/ \E r \in ReqIds : \E i \in DOMAIN req[r].tasks : Unlink(r, i)
  \/ \E r \in ReqIds : FinishRead(r)
  \/ \E w \in wbs : WbApply(w)
  \/ \E w \in wbs : WbFail(w)
  \/ \E r \in ReqIds, e \in Posts : StartWrite(r, "delete", e, {})
  \/ \E r \in ReqIds, e \in Posts :
        \E rm \in SUBSET {db[e].media[i].url : i \in DOMAIN db[e].media} :
           StartWrite(r, "put", e, rm)
  \/ \E r \in ReqIds, dbOk \in BOOLEAN : CheckItem(r, dbOk)
  \/ \E r \in ReqIds : UnlinkItem(r)
  \/ \E r \in ReqIds : UnlinkItemFails(r)
  \/ \E r \in ReqIds : FinishWrite(r)

Spec == Init /\ [][Next]_vars

(***************************************************************************)
(* The members routes.                                                     *)
(***************************************************************************)
NextMembers ==
  \/ \E r \in ReqIds : StartMembers(r, "http://b1")
  \/ \E r \in ReqIds : \E i \in DOMAIN req[r].tasks : Access(r, i)
  \/ \E r \in ReqIds : \E i \in DOMAIN req[r].tasks : Open(r, i)
  \/ \E r \in ReqIds : \E i \in DOMAIN req[r].tasks :
        \E st \in {200, 404} : Response(r, i, st, FALSE)
  \/ \E r \in ReqIds : \E i \in DOMAIN req[r].tasks : RequestError(r, i)
  \/ \E r \in ReqIds : \E i \in DOMAIN req[r].tasks : WriteChunk(r, i)
  \/ \E r \in ReqIds : \E i \in DOMAIN req[r].tasks : Finish(r, i)
  \/ \E r \in ReqIds : \E i \in DOMAIN req[r].tasks : Closed(r, i)
  \/ \E r \in ReqIds : \E i \in DOMAIN req[r].tasks : Unlink(r, i)
  \/ \E r \in ReqIds : MemberNext(r)
  \/ \E w \in wbs : WbApply(w)
  \/ \E w \in wbs : WbFail(w)
  \/ \E r \in ReqIds, e \in Members : StartWrite(r, "mdelete", e, {})
  \/ \E r \in ReqIds : UnlinkItem(r)
  \/ \E r \in ReqIds : UnlinkItemFails(r)
  \/ \E r \in ReqIds : FinishWrite(r)

SpecMembers == InitMembers /\ [][NextMembers]_vars


(***************************************************************************)
(* Reads of posts only: no handler removes a file on purpose.              *)
(***************************************************************************)
InitReads ==
  /\ Fresh([p1 |-> <<Item("obj", Remote("U1"))>>,
            p2 |-> <<Item("obj", Remote("U3"))>>])
  /\ InitRest

NextReads ==
  \/ \E r \in ReqIds, kind \in {"list", "detail"}, e \in Posts, b \in Bases :
        StartRead(r, kind, e, b)
  \/ \E r \in ReqIds : \E i \in DOMAIN req[r].tasks : Access(r, i)
  \/ \E r \in ReqIds : \E i \in DOMAIN req[r].tasks : Open(r, i)
  \/ \E r \in ReqIds : \E i \in DOMAIN req[r].tasks :
        \E st \in {200, 404} : Response(r, i, st, FALSE)
  \/ \E r \in ReqIds : \E i \in DOMAIN req[r].tasks : RequestError(r, i)
  \/ \E r \in ReqIds : \E i \in DOMAIN req[r].tasks : WriteChunk(r, i)
  \/ \E r \in ReqIds : \E i \in DOMAIN req[r].tasks : Finish(r, i)
  \/ \E r \in ReqIds : \E i \in DOMAIN req[r].tasks : Closed(r, i)
  \/ \E r \in ReqIds : \E i \in DOMAIN req[r].tasks : Unlink(r, i)
  \/ \E r \in ReqIds : FinishRead(r)
  \/ \E w \in wbs : WbApply(w)
  \/ \E w \in wbs : WbFail(w)

SpecReads == InitReads /\ [][NextReads]_vars

(***************************************************************************)
(* GET /posts/:id, one request after the other, against a host that also   *)
(* redirects, with and without a Location header.                          *)
(***************************************************************************)
NextFetch ==
  \/ \E r \in ReqIds, e \in Posts, b \in Bases :
        /\ \A q \in ReqIds : req[q].pc \in {"idle", "responded"}
        /\ StartRead(r, "detail", e, b)
  \/ \E r \in ReqIds : \E i \in DOMAIN req[r].tasks : Access(r, i)
  \/ \E r \in ReqIds : \E i \in DOMAIN req[r].tasks : Open(r, i)
  \/ \E r \in ReqIds : \E i \in DOMAIN req[r].tasks :
        \E st \in {200, 302, 404}, loc \in BOOLEAN : Response(r, i, st, loc)
  \/ \E r \in ReqIds : \E i \in DOMAIN req[r].tasks : RequestError(r, i)
  \/ \E r \in ReqIds : \E i \in DOMAIN req[r].tasks : WriteChunk(r, i)
  \/ \E r \in ReqIds : \E i \in DOMAIN req[r].tasks : Finish(r, i)
  \/ \E r \in ReqIds : \E i \in DOMAIN req[r].tasks : Closed(r, i)
  \/ \E r \in ReqIds : \E i \in DOMAIN req[r].tasks : Unlink(r, i)
  \/ \E r \in ReqIds : FinishRead(r)

SpecFetch == InitReads /\ [][NextFetch]_vars

(***************************************************************************)
(* The same reads against a host whose redirects carry one of three        *)
(* Location headers: an absolute https URL, an absolute http URL, a path.  *)
(* A URL is [scheme, host, path], a relative reference has no scheme.      *)
(***************************************************************************)
NoLocation == [scheme |-> "", host |-> "", path |-> ""]

Locations ==
  {[scheme |-> "https", host |-> "cdn.example.com", path |-> "/b.jpg"],
   [scheme |-> "http", host |-> "cdn.example.com", path |-> "/b.jpg"],
   [scheme |-> "", host |-> "", path |-> "/c.jpg"]}

\* the URL the fetch is at: src until a redirect was followed
CurrentUrl(t) ==
  IF t.url = NoLocation
  THEN [scheme |-> "https", host |-> UrlOf(t.src).host, path |-> "/asset"]
  ELSE t.url

\* res.headers.location.startsWith("http") ? res.headers.location
\*   : new URL(res.headers.location, url).toString()
NextUrl(location, url) ==
  IF location.scheme \in {"http", "https"} THEN location
  ELSE [scheme |-> url.scheme, host |-> url.host, path |-> location.path]

\* https.get(url, ...) issues the request; for a URL that is not https: it
\* throws ERR_INVALID_PROTOCOL
HttpsGetAccepts(url) == url.scheme = "https"

(***************************************************************************)
(* The response callback of https.get, with the Location the response      *)
(* carried.  When https.get throws for the next URL the exception leaves   *)
(* the callback uncaught: the promise is never settled and the process     *)
(* ends.                                                                   *)
(***************************************************************************)
Hop(r, i, status, location) ==
  LET rq == req[r]
      t == rq.tasks[i]
      loc == location # NoLocation
      next == NextUrl(location, CurrentUrl(t))
  IN  /\ Active(rq, i)
      /\ t.pc = "wait"
      /\ req' =
           IF FollowsRedirect(status, loc, t.left)
           THEN IF HttpsGetAccepts(next)
                THEN [req EXCEPT ![r].tasks[i] =
                        [t EXCEPT !.left = t.left - 1, !.reqs = t.reqs + 1,
                                  !.st = status, !.loc = loc, !.url = next]]
                ELSE [req EXCEPT ![r].pc = "crashed",
                                 ![r].tasks[i] =
                                    [t EXCEPT !.pc = "thrown", !.st = status,
                                              !.loc = loc]]
           ELSE IF status # 200
           THEN [req EXCEPT ![r].tasks[i] =
                   [t EXCEPT !.pc = "failed", !.unl = TRUE,
                             !.st = status, !.loc = loc]]
           ELSE [req EXCEPT ![r].tasks[i] =
                   [t EXCEPT !.pc = "body", !.st = status, !.loc = loc]]
      /\ UNCHANGED <<db, disk, wbs, ops, firstUrl>>

NextRedirect ==
  \/ \E r \in ReqIds, e \in Posts, b \in Bases :
        /\ \A q \in ReqIds : req[q].pc \in {"idle", "responded"}
        /\ StartRead(r, "detail", e, b)
  \/ \E r \in ReqIds : \E i \in DOMAIN req[r].tasks : Access(r, i)
  \/ \E r \in ReqIds : \E i \in DOMAIN req[r].tasks : Open(r, i)
  \/ \E r \in ReqIds : \E i \in DOMAIN req[r].tasks :
        \E st \in {200, 302, 404}, l \in Locations \cup {NoLocation} : Hop(r, i, st, l)
  \/ \E r \in ReqIds : \E i \in DOMAIN req[r].tasks : RequestError(r, i)
  \/ \E r \in ReqIds : \E i \in DOMAIN req[r].tasks : WriteChunk(r, i)
  \/ \E r \in ReqIds : \E i \in DOMAIN req[r].tasks : Finish(r, i)
  \/ \E r \in ReqIds : \E i \in DOMAIN req[r].tasks : Closed(r, i)
  \/ \E r \in ReqIds : \E i \in DOMAIN req[r].tasks : Unlink(r, i)
  \/ \E r \in ReqIds : FinishRead(r)

SpecRedirect == InitReads /\ [][NextRedirect]_vars

(***************************************************************************)
(* The same reads of two posts whose Cloudinary URLs, U1 and U2, derive    *)
(* one filename.                                                           *)
(***************************************************************************)
InitCollide ==
  /\ Fresh([p1 |-> <<Item("obj", Remote("U1"))>>,
            p2 |-> <<Item("obj", Remote("U2"))>>])
  /\ InitRest

SpecCollide == InitCollide /\ [][NextFetch]_vars

(***************************************************************************)
(* GET /team: Team.find().sort(...), then the same loop as GET /members    *)
(* with ensureLocalPhoto, which stores under team/.  Requests come one     *)
(* after the other.                                                        *)
(***************************************************************************)
TeamOrder == <<"t1", "t2">>

StartTeam(r, b) ==
  LET found == SelectSeq(TeamOrder, LAMBDA m : db[m].alive)
  IN  /\ Arrives(r)
      /\ \A q \in ReqIds : req[q].pc \in {"idle", "responded"}
      /\ ops' = ops + 1
      /\ req' = [req EXCEPT ![r] =
           [Idle EXCEPT !.kind = "team", !.base = b, !.ents = found,
                        !.snap = [i \in DOMAIN found |-> db[found[i]].media[1]],
                        !.tasks = [i \in DOMAIN found |->
                                     NewTask(db[found[i]].media[1])],
                        !.cur = 1,
                        !.pc = IF found = <<>> THEN "responded" ELSE "run",
                        !.status = IF found = <<>> THEN 200 ELSE 0]]
      /\ UNCHANGED <<db, disk, wbs, firstUrl>>

InitTeam ==
  /\ Fresh([t1 |-> <<Item("str", Remote("T1"))>>,
            t2 |-> <<Item("str", Remote("U4"))>>])
  /\ InitRest

NextTeam ==
  \/ \E r \in ReqIds, b \in Bases : StartTeam(r, b)
  \/ \E r \in ReqIds : \E i \in DOMAIN req[r].tasks : Access(r, i)
  \/ \E r \in ReqIds : \E i \in DOMAIN req[r].tasks : Open(r, i)
  \/ \E r \in ReqIds : \E i \in DOMAIN req[r].tasks :
        \E s \in {200, 302, 404}, loc \in BOOLEAN : Response(r, i, s, loc)
  \/ \E r \in ReqIds : \E i \in DOMAIN req[r].tasks : RequestError(r, i)
  \/ \E r \in ReqIds : \E i \in DOMAIN req[r].tasks : WriteChunk(r, i)
  \/ \E r \in ReqIds : \E i \in DOMAIN req[r].tasks : Finish(r, i)
  \/ \E r \in ReqIds : \E i \in DOMAIN req[r].tasks : Closed(r, i)
  \/ \E r \in ReqIds : \E i \in DOMAIN req[r].tasks : Unlink(r, i)
  \/ \E r \in ReqIds : MemberNext(r)
  \/ \E w \in wbs : WbApply(w)
  \/ \E w \in wbs : WbFail(w)

SpecTeam == InitTeam /\ [][NextTeam]_vars

(***************************************************************************)
(* index.js: the cors middleware, then express.static mounted at /uploads  *)
(* on path.join(process.cwd(), "uploads").  The handlers write under       *)
(* path.resolve(__dirname, "../../client/uploads"), __dirname being        *)
(* src/routes or src/utils of the installation.                            *)
(***************************************************************************)
InstallDir == "/srv/ulf-backend"
UPLOADS_ROOT == InstallDir \o "/client/uploads"

\* the directories the server may be started from
Cwds == {InstallDir, InstallDir \o "/client"}
StaticRoot(cwd) == cwd \o "/uploads"

\* the Origin header of a request ("" for none)
allowedOrigins ==
  {"http://localhost:5173", "https://unitedlinkfoundation.com",
   "https://www.unitedlinkfoundation.com"}
Origins == {"", "https://unitedlinkfoundation.com", "https://other.example"}

\* origin callback of cors(): !origin || allowedOrigins.includes(origin)
CorsAllows(origin) == origin = "" \/ origin \in allowedOrigins

\* GET /uploads/{rel}: cors rejects with an error (500 from the default error
\* handler), else express.static answers with the file it finds under its
\* root, else the request falls through to a 404
StaticGet(r, rel, origin, cwd) ==
  LET served == StaticRoot(cwd) = UPLOADS_ROOT /\ disk[rel].ex
  IN  /\ Arrives(r)
      /\ \A q \in ReqIds : req[q].kind = "static" => req[q].cwd = cwd
      /\ ops' = ops + 1
      /\ req' = [req EXCEPT ![r] =
           [Idle EXCEPT !.kind = "static", !.pc = "responded",
                        !.path = rel, !.origin = origin, !.cwd = cwd,
                        !.had = disk[rel].ex,
                        !.status = IF ~CorsAllows(origin) THEN 500
                                   ELSE IF served THEN 200 ELSE 404]]
      /\ UNCHANGED <<db, disk, wbs, firstUrl>>

NextStatic ==
  \/ \E r \in ReqIds : StartRead(r, "list", "p1", "http://b1")
  \/ \E r \in ReqIds : \E i \in DOMAIN req[r].tasks : Access(r, i)
  \/ \E r \in ReqIds : \E i \in DOMAIN req[r].tasks : Open(r, i)
  \/ \E r \in ReqIds : \E i \in DOMAIN req[r].tasks :
        \E s \in {200, 404} : Response(r, i, s, FALSE)
  \/ \E r \in ReqIds : \E i \in DOMAIN req[r].tasks : RequestError(r, i)
  \/ \E r \in ReqIds : \E i \in DOMAIN req[r].tasks : WriteChunk(r, i)
  \/ \E r \in ReqIds : \E i \in DOMAIN req[r].tasks : Finish(r, i)
  \/ \E r \in ReqIds : \E i \in DOMAIN req[r].tasks : Closed(r, i)
  \/ \E r \in ReqIds : \E i \in DOMAIN req[r].tasks : Unlink(r, i)
  \/ \E r \in ReqIds : FinishRead(r)
  \/ \E w \in wbs : WbApply(w)
  \/ \E w \in wbs : WbFail(w)
  \/ \E r \in ReqIds, rel \in {PostRel("U1"), UploadRel}, o \in Origins, d \in Cwds :
        StaticGet(r, rel, o, d)

SpecStatic == Init /\ [][NextStatic]_vars

(***************************************************************************)
(* Startup.  index.js imports the route modules in the order posts, about, *)
(* member, team; each creates its directories with                         *)
(* mkdirSync(dir, { recursive: true }) while it is evaluated, then         *)
(* connectDB().then(() => app.listen(PORT)).  "" names the cache root.     *)
(* bad is the set of directories the file system refuses to create.        *)
(***************************************************************************)
CacheDirs == {"", "posts/images", "posts/videos", "about", "members", "team"}

\* the mkdirSync calls in the order they run; guarded: inside try { } catch {}
MkdirCalls ==
  << [dir |-> "",             guarded |-> TRUE],    \* posts.js
     [dir |-> "posts/images", guarded |-> TRUE],
     [dir |-> "posts/videos", guarded |-> TRUE],
     [dir |-> "about",        guarded |-> FALSE],   \* about.js
     [dir |-> "members",      guarded |-> FALSE],   \* member.js
     [dir |-> "team",         guarded |-> TRUE] >>  \* team.js

\* recursive mkdir creates the missing parents first
MkdirOk(d, bad) == d \notin bad /\ "" \notin bad

BootStart(r, bad) ==
  /\ Arrives(r)
  /\ \A q \in ReqIds : req[q].kind = "boot" => req[q].pc = "crashed"
  /\ ops' = ops + 1
  /\ req' = [req EXCEPT ![r] =
       [Idle EXCEPT !.kind = "boot", !.pc = "run", !.cur = 1, !.bad = bad]]
  /\ UNCHANGED <<db, disk, wbs, firstUrl>>

\* one mkdirSync call: it succeeds, or throws into an empty catch, or throws
\* out of the module, which ends the process
Mkdir(r) ==
  LET rq == req[r]
      call == MkdirCalls[rq.cur]
  IN  /\ rq.kind = "boot" /\ rq.pc = "run"
      /\ rq.cur <= Len(MkdirCalls)
      /\ req' = [req EXCEPT ![r] =
           IF MkdirOk(call.dir, rq.bad)
           THEN [rq EXCEPT !.dirs = rq.dirs \cup {"", call.dir}, !.cur = rq.cur + 1]
           ELSE IF call.guarded THEN [rq EXCEPT !.cur = rq.cur + 1]
           ELSE [rq EXCEPT !.pc = "crashed"]]
      /\ UNCHANGED <<db, disk, wbs, ops, firstUrl>>

\* app.listen(PORT)
Listen(r) ==
  LET rq == req[r]
  IN  /\ rq.kind = "boot" /\ rq.pc = "run"
      /\ rq.cur > Len(MkdirCalls)
      /\ req' = [req EXCEPT ![r].pc = "listening"]
      /\ UNCHANGED <<db, disk, wbs, ops, firstUrl>>

NextBoot ==
  \/ \E r \in ReqIds, bad \in SUBSET CacheDirs : BootStart(r, bad)
  \/ \E r \in ReqIds : Mkdir(r)
  \/ \E r \in ReqIds : Listen(r)

SpecBoot == InitReads /\ [][NextBoot]_vars

(***************************************************************************)
(* scripts/migrateCloudinaryToLocal.js, migratePosts, one turn of its loop *)
(* over the posts: every cloudinary item is downloaded to a file named     *)
(* after Date.now() (stamp st[i]; ok[i] tells whether the download         *)
(* succeeded) and, if any succeeded, the document is updated.  The script  *)
(* is a process of its own and may run while the server answers reads.     *)
(***************************************************************************)
MigrationBase == "http://b1"

LatestStamp ==
  LET used == {n \in Stamps : \E u \in UrlIds : disk[MigrateRel(n, u)].ex}
  IN  IF used = {} THEN 1 ELSE CHOOSE n \in used : \A m \in used : m <= n

MigratePost(e, st, ok) ==
  LET media == db[e].media
      hit(i) == IsCloudinarySrc(media[i].url) /\ ok[i]
      rel(i) == MigrateRel(st[i], SrcOf(media[i].url))
      newMedia == [i \in DOMAIN media |->
                     IF hit(i)
                     THEN Item("obj", LocalUrl(MigrationBase, rel(i), SrcOf(media[i].url)))
                     ELSE media[i]]
      writers(p) == {i \in DOMAIN media : hit(i) /\ rel(i) = p}
      last(p) == CHOOSE i \in writers(p) : \A j \in writers(p) : j <= i
  IN  /\ db[e].alive
      /\ \E i \in DOMAIN media : IsCloudinarySrc(media[i].url)
      /\ \A i \in DOMAIN media : st[i] >= LatestStamp
      /\ \A i, j \in DOMAIN media : i <= j => st[i] <= st[j]
      /\ disk' = [p \in Paths |->
                    IF writers(p) # {} THEN FullFile(SrcOf(media[last(p)].url))
                    ELSE disk[p]]
      /\ db' = [db EXCEPT ![e].media = newMedia]
      /\ UNCHANGED <<req, wbs, ops, firstUrl>>

InitMigrate ==
  /\ Fresh([p1 |-> <<Item("obj", Remote("U1"))>>,
            p2 |-> <<Item("str", Remote("U1"))>>])
  /\ InitRest

NextMigrate ==
  \/ \E r \in ReqIds, e \in Posts : StartRead(r, "list", e, MigrationBase)
  \/ \E r \in ReqIds : \E i \in DOMAIN req[r].tasks : Access(r, i)
  \/ \E r \in ReqIds : \E i \in DOMAIN req[r].tasks : Open(r, i)
  \/ \E r \in ReqIds : \E i \in DOMAIN req[r].tasks :
        \E s \in {200, 404} : Response(r, i, s, FALSE)
  \/ \E r \in ReqIds : \E i \in DOMAIN req[r].tasks : RequestError(r, i)
  \/ \E r \in ReqIds : \E i \in DOMAIN req[r].tasks : WriteChunk(r, i)
  \/ \E r \in ReqIds : \E i \in DOMAIN req[r].tasks : Finish(r, i)
  \/ \E r \in ReqIds : \E i \in DOMAIN req[r].tasks : Closed(r, i)
  \/ \E r \in ReqIds : \E i \in DOMAIN req[r].tasks : Unlink(r, i)
  \/ \E r \in ReqIds : FinishRead(r)
  \/ \E w \in wbs : WbApply(w)
  \/ \E w \in wbs : WbFail(w)
  \/ \E e \in Posts :
        \E st \in [DOMAIN db[e].media -> Stamps], ok \in [DOMAIN db[e].media -> BOOLEAN] :
           MigratePost(e, st, ok)

SpecMigrate == InitMigrate /\ [][NextMigrate]_vars

(***************************************************************************)
(* Reads of documents whose stored values are not remote-provider URLs:    *)
(* local URLs written under an earlier base, a local URL whose file name   *)
(* holds the word "cloudinary", a plain string, a value without full or    *)
(* thumb.                                                                  *)
(***************************************************************************)
InitLocal ==
  /\ db = [e \in Entities |->
            CASE e = "p1" -> Doc(<<Item("obj", LocalUrl("http://b1", UploadRel, "")),
                                   Item("str", LocalUrl("https://old.example", CloudRel, ""))>>)
              [] e = "p2" -> Doc(<<Item("str", Plain("X2")), Item("raw", NoUrl)>>)
              [] e = "m1" -> Doc(<<Item("str", LocalUrl("http://b1", MemberRel("U1"), "U1"))>>)
              [] e = "m2" -> Doc(<<Item("str", Plain("X1"))>>)
              [] OTHER -> NoDoc]
  /\ disk = [p \in Paths |->
              IF p \in {UploadRel, CloudRel} THEN Uploaded
              ELSE IF p = MemberRel("U1") THEN FullFile("U1") ELSE Absent]
  /\ firstUrl = [k \in UrlIds \X Bases |-> ""]
  /\ InitRest

NextLocal ==
  \/ \E r \in ReqIds, kind \in {"list", "detail"}, e \in Posts, b \in Bases :
        StartRead(r, kind, e, b)
  \/ \E r \in ReqIds, b \in Bases : StartMembers(r, b)
  \/ \E r \in ReqIds : \E i \in DOMAIN req[r].tasks : Access(r, i)
  \/ \E r \in ReqIds : \E i \in DOMAIN req[r].tasks : Open(r, i)
  \/ \E r \in ReqIds : \E i \in DOMAIN req[r].tasks :
        \E st \in {200, 404} : Response(r, i, st, FALSE)
  \/ \E r \in ReqIds : \E i \in DOMAIN req[r].tasks : RequestError(r, i)
  \/ \E r \in ReqIds : \E i \in DOMAIN req[r].tasks : WriteChunk(r, i)
  \/ \E r \in ReqIds : \E i \in DOMAIN req[r].tasks : Finish(r, i)
  \/ \E r \in ReqIds : \E i \in DOMAIN req[r].tasks : Closed(r, i)
  \/ \E r \in ReqIds : \E i \in DOMAIN req[r].tasks : Unlink(r, i)
  \/ \E r \in ReqIds : FinishRead(r)
  \/ \E r \in ReqIds : MemberNext(r)
  \/ \E w \in wbs : WbApply(w)
  \/ \E w \in wbs : WbFail(w)

SpecLocal == InitLocal /\ [][NextLocal]_vars


(***************************************************************************)
(*                              Properties                                 *)
(***************************************************************************)
Tasks == {<<r, i>> \in ReqIds \X (1..2) : i \in DOMAIN req[r].tasks}
TaskOf(x) == req[x[1]].tasks[x[2]]
RelOf(x) == TaskRel(req[x[1]], x[2])

\* the task's materialization began after one of the same URL and base had
\* completed
Later(x) == TaskOf(x).after

\* what C1 asks of a later materialization
CacheHit(x) ==
  /\ TaskOf(x).reqs = 0
  /\ TaskOf(x).pc = "done" => RelOf(x) = firstUrl[<<TaskOf(x).src, req[x[1]].base>>]

\* C1 as stated: once a materialization of u has completed successfully,
\* every later materialization of u with the same public base issues no HTTP
\* request and returns the local URL the first one returned.
C1_EveryLaterIsCacheHit == \A x \in Tasks : Later(x) => CacheHit(x)

\* C1 as amended: the same for every later materialization that finds the
\* destination file still on disk.
C1_LaterIsCacheHitWhileFileExists ==
  \A x \in Tasks : (Later(x) /\ TaskOf(x).found) => CacheHit(x)

C1_Witness ==
  \E x \in Tasks :
     /\ Later(x) /\ TaskOf(x).found /\ TaskOf(x).pc = "done"
     /\ req[x[1]].pc = "responded"
     /\ req[x[1]].body[x[2]].url = LocalUrl(req[x[1]].base, RelOf(x), TaskOf(x).src)

\* DELETE or PUT is at work on post e: its file may be gone while the
\* document is still to be removed or saved
BeingWritten(e) ==
  \E r \in ReqIds :
     req[r].ent = e /\ req[r].kind \in {"delete", "put"} /\ req[r].pc # "responded"

\* C2: every stored media value that a materialization of u rewrote points to
\* a file that is on disk and holds the whole body served for u (posts that
\* a DELETE or PUT is taking apart are left out).
C2_RewrittenValueHasCompleteFile ==
  \A e \in Posts : (db[e].alive /\ ~BeingWritten(e)) =>
     \A i \in DOMAIN db[e].media :
        LET url == db[e].media[i].url
        IN  (url.k = "local" /\ url.origin # "") => disk[url.rel] = FullFile(url.origin)

\* rel is referenced by a surviving entity of the collection other than e
ReferencedByOther(coll, rel, e) ==
  \E p \in coll \ {e} :
     /\ db[p].alive
     /\ \E i \in DOMAIN db[p].media :
           db[p].media[i].url.k = "local" /\ db[p].media[i].url.rel = rel

\* request r removes a file in this step
Unlinks(r) == req[r].pc = "unlink" /\ req'[r].pc # "unlink" /\ disk' # disk
UnlinkedRel(r) == req[r].snap[req[r].cur].url.rel

\* C3: DELETE /posts/:id and PUT /posts/:id never unlink a file that another
\* surviving post references at that moment.
C3_NoUnlinkOfFileReferencedByOtherPost ==
  [][\A r \in ReqIds :
        (req[r].kind \in {"delete", "put"} /\ Unlinks(r))
           => ~ReferencedByOther(Posts, UnlinkedRel(r), req[r].ent)]_vars

\* C4: DELETE /members/:id never unlinks a file that another surviving
\* member references at that moment.
C4_NoUnlinkOfFileReferencedByOtherMember ==
  [][\A r \in ReqIds :
        (req[r].kind = "mdelete" /\ Unlinks(r))
           => ~ReferencedByOther(Members, UnlinkedRel(r), req[r].ent)]_vars

\* every materialization of u has finished and no unlink it issued is pending
AllFinished(u) ==
  \A x \in Tasks : TaskOf(x).src = u => (Settled(TaskOf(x)) /\ ~TaskOf(x).unl)

\* C5: once all concurrent materializations of one remote URL have finished,
\* each of them that returned a local URL has left the destination file on
\* disk with the whole content of the asset.
C5_ConcurrentMaterializationsLeaveCompleteFile ==
  \A x \in Tasks :
     (TaskOf(x).pc = "done" /\ AllFinished(TaskOf(x).src))
        => disk[RelOf(x)] = FullFile(TaskOf(x).src)

\* C6: when the fetch for an item fails, the read still answers 200, returns
\* the item with its remote URL, and writes no local URL back for that item.
C6_FailedFetchFallsBackToRemoteUrl ==
  \A r \in ReqIds : (req[r].pc = "responded" /\ req[r].kind \in {"list", "detail"}) =>
     \A i \in DOMAIN req[r].tasks : req[r].tasks[i].pc = "failed" =>
        /\ req[r].status = 200
        /\ req[r].body[i].url = req[r].snap[i].url
        /\ \A w \in wbs : w.by = r => w.media[i].url = req[r].snap[i].url

C6_Witness ==
  \E r \in ReqIds :
     /\ req[r].pc = "responded" /\ req[r].status = 200
     /\ \E i \in DOMAIN req[r].tasks :
           req[r].tasks[i].pc = "failed" /\ req[r].body[i].url.k = "remote"
     /\ \E w \in wbs : w.by = r /\ w.st = "ok"

\* C7: after a fetch has ended in failure, the file created for the download
\* is no longer at the destination path.
C7_NoFileAfterFailure ==
  \A x \in Tasks : TaskOf(x).pc = "failed" => ~TaskOf(x).att

\* C8: a fetch issues at most DefaultRedirects + 1 requests; each followed
\* redirect uses up one hop, and a 3xx with a Location that is not followed
\* means the budget was spent and the fetch has failed.
C8_RedirectsAreBounded ==
  \A x \in Tasks :
     /\ TaskOf(x).reqs <= DefaultRedirects + 1
     /\ TaskOf(x).pc = "wait" => TaskOf(x).reqs + TaskOf(x).left = DefaultRedirects + 1
     /\ (TaskOf(x).st >= 300 /\ TaskOf(x).st < 400 /\ TaskOf(x).loc
           /\ TaskOf(x).pc # "wait")
          => (TaskOf(x).pc = "failed" /\ TaskOf(x).left = 0)

C8_Witness ==
  \E x \in Tasks :
     /\ TaskOf(x).pc = "failed" /\ TaskOf(x).st = 302 /\ TaskOf(x).loc
     /\ TaskOf(x).reqs = DefaultRedirects + 1
     /\ req[x[1]].pc = "responded"

\* C9: whatever becomes of a write-back (pending, applied, rejected), the
\* read that issued it has answered 200 with the mapped media, and the
\* write-back is attempted once.
C9_WriteBackNeverAffectsTheRead ==
  \A w \in wbs :
     /\ req[w.by].pc = "responded"
     /\ req[w.by].status = 200
     /\ req[w.by].body = w.media
     /\ w.tries = 1

C9_Witness ==
  \E w \in wbs :
     /\ w.st = "failed"
     /\ req[w.by].pc = "responded" /\ req[w.by].status = 200
     /\ \E i \in DOMAIN w.media : req[w.by].tasks[i].pc = "done"

\* C10: every read that materialized a remote reference has issued a
\* write-back that sets the item to the local URL it returned.
C10_EveryMaterializingReadWritesBack ==
  \A r \in ReqIds : (req[r].pc = "responded" /\ req[r].kind \in {"list", "detail"}) =>
     \A i \in DOMAIN req[r].tasks : req[r].tasks[i].pc = "done" =>
        \E w \in wbs : w.by = r /\ w.media[i].url = req[r].body[i].url

\* the reads that map stored media
Reads == {r \in ReqIds : req[r].pc = "responded" /\ req[r].status = 200
                           /\ req[r].kind \in {"list", "detail", "members"}}

\* C11: an already-local stored value (one whose text holds no provider
\* token) read under public base b comes back as b/uploads/{rel}, for posts
\* and for members alike.
C11_LocalValueFollowsRequestBase ==
  \A r \in Reads : \A i \in DOMAIN req[r].snap :
     LET v == req[r].snap[i].url
     IN  (v.k = "local" /\ ~IsCloudinarySrc(v))
            => /\ req[r].body[i].url.k = "local"
               /\ req[r].body[i].url.base = req[r].base
               /\ req[r].body[i].url.rel = v.rel

\* C12: a post's stored URL whose host is no provider host and whose path
\* holds /uploads/ causes no HTTP request and no file creation, and is
\* returned as {publicBase}/uploads/{rel}.
C12_LocalUrlIsNeverFetched ==
  \A r \in ReqIds : req[r].kind \in {"list", "detail"} =>
     \A i \in DOMAIN req[r].tasks :
        LET v == req[r].snap[i].url
        IN  v.k = "local"
              => /\ req[r].tasks[i].reqs = 0
                 /\ ~req[r].tasks[i].att
                 /\ r \in Reads => req[r].body[i].url = LocalUrl(req[r].base, v.rel, v.origin)

\* a stored value that is neither remote-provider nor local
Unrecognized(item) == ~IsCloudinarySrc(item.url) /\ extractLocalRelative(item.url) = ""

RewrittenFrom(u) ==
  {x \in Posts \X (1..2) :
     /\ db[x[1]].alive /\ x[2] \in DOMAIN db[x[1]].media
     /\ db[x[1]].media[x[2]].url.k = "local"
     /\ db[x[1]].media[x[2]].url.origin = u}

\* C14: whichever code path derived them, at whatever time, two filenames
\* derived for the same remote URL are equal.
C14_FilenameIsFunctionOfUrl ==
  \A u \in UrlIds : \A x, y \in RewrittenFrom(u) :
     db[x[1]].media[x[2]].url.rel = db[y[1]].media[y[2]].url.rel

\* y and x are completed materializations of two different URLs with one
\* destination file, y by a download that wrote and closed the file, x by a
\* request that came after the request of y
Collide(y, x) ==
  /\ y[1] < x[1]
  /\ TaskOf(y).pc = "done" /\ TaskOf(y).closed
  /\ TaskOf(x).pc = "done"
  /\ TaskOf(y).src # TaskOf(x).src
  /\ RelOf(y) = RelOf(x)

TeamReads == {r \in ReqIds : req[r].pc = "responded" /\ req[r].kind = "team"}

\* C16 as stated: the team photo https://cdn.example.com/v123/ulf_team/abcd.jpg
\* (T1) is returned as {publicBase}/uploads/team/abcd.jpg, its file written.
C16_CdnPhotoIsMaterialized ==
  \A r \in TeamReads : \A i \in DOMAIN req[r].snap :
     req[r].snap[i].url = Remote("T1")
       => /\ req[r].body[i].url.k = "local"
          /\ req[r].body[i].url.base = req[r].base
          /\ req[r].body[i].url.rel = "team/abcd.jpg"

\* C16 as amended: a team photo URL of the provider with basename abcd (U4)
\* whose download succeeded is stored as team/abcd.jpg and returned as
\* {publicBase}/uploads/team/abcd.jpg; T1, which does not hold the provider
\* token, is returned as stored and nothing is fetched for it.
C16_CloudinaryPhotoIsMaterialized ==
  \A r \in TeamReads : \A i \in DOMAIN req[r].snap :
     /\ (req[r].snap[i].url = Remote("U4") /\ req[r].tasks[i].pc = "done")
          => /\ req[r].body[i].url = LocalUrl(req[r].base, "team/abcd.jpg", "U4")
             /\ req[r].tasks[i].reqs > 0 => disk["team/abcd.jpg"] = FullFile("U4")
     /\ req[r].snap[i].url = Remote("T1")
          => /\ req[r].body[i].url = Remote("T1")
             /\ req[r].tasks[i].reqs = 0

C16_Witness ==
  \E r \in TeamReads : \E i \in DOMAIN req[r].snap :
     /\ req[r].snap[i].url = Remote("U4")
     /\ req[r].tasks[i].pc = "done" /\ req[r].tasks[i].reqs > 0
     /\ req[r].body[i].url = LocalUrl(req[r].base, "team/abcd.jpg", "U4")
     /\ disk["team/abcd.jpg"] = FullFile("U4")

\* C17: a fetch resolves only after the whole body was written and the file
\* handle closed: the close is asked for only when the body is complete, and
\* a task that downloaded is resolved only with the body complete and the
\* handle closed.
C17_WrittenThenClosedThenResolved ==
  \A x \in Tasks :
     /\ TaskOf(x).pc = "closing" => (TaskOf(x).written = NumChunks /\ ~TaskOf(x).closed)
     /\ TaskOf(x).closed => TaskOf(x).written = NumChunks
     /\ (TaskOf(x).pc = "done" /\ TaskOf(x).reqs > 0)
          => (TaskOf(x).written = NumChunks /\ TaskOf(x).closed)

C17_Witness ==
  \E x \in Tasks :
     /\ TaskOf(x).pc = "done" /\ TaskOf(x).reqs > 0
     /\ TaskOf(x).written = NumChunks /\ TaskOf(x).closed
     /\ disk[RelOf(x)] = FullFile(TaskOf(x).src)

C19_WrittenFilesAreServedToAnyOrigin ==
  \A r \in ReqIds :
     (req[r].kind = "static" /\ req[r].pc = "responded" /\ req[r].had)
        => req[r].status = 200

\* C20: a start does not get to listen when the cache root cannot be
\* created, and ends in a crash only then: a subdirectory that cannot be
\* created does not stop it.
C20_OnlyRootFailureIsFatal ==
  \A r \in ReqIds : req[r].kind = "boot" =>
     /\ req[r].pc = "listening" => "" \notin req[r].bad
     /\ req[r].pc = "crashed" => "" \in req[r].bad

\* the item stored as url is (a rewrite of) one of media: the same value, the
\* same file under /uploads/, or the local form of the same remote URL
StillIn(url, media) ==
  \E i \in DOMAIN media :
     \/ media[i].url = url
     \/ extractLocalRelative(url) # ""
        /\ extractLocalRelative(media[i].url) = extractLocalRelative(url)
     \/ url.k = "remote" /\ media[i].url.k = "local" /\ media[i].url.origin = url.id

\* a PUT /posts/:id that has answered 200, the only write request to its post
\* so far, and a write-back of GET /posts to that post that has been applied
PutAndWriteBackDone(r, w) ==
  /\ req[r].kind = "put" /\ req[r].pc = "responded" /\ req[r].status = 200
  /\ w \in wbs /\ w.ent = req[r].ent /\ w.st = "ok"
  /\ \A q \in ReqIds \ {r} : req[q].kind \in {"put", "delete"} => req[q].ent # req[r].ent
  /\ \A v \in wbs : v.ent = w.ent => v.st # "pending"

\* C21: once a PUT /posts/:id and a write-back of GET /posts to the same post
\* have both completed, the post's imageUrls hold no item the PUT removed.
C21_WriteBackKeepsThePut ==
  \A r \in ReqIds : \A w \in wbs :
     PutAndWriteBackDone(r, w) =>
        \A u \in req[r].rm : ~StillIn(u, db[req[r].ent].media)

\* a download to rel is under way: its file was created and its promise has
\* not settled, or it failed and the unlink it issued has not run yet
InFlightTo(rel) ==
  \E y \in Tasks :
     /\ TaskOf(y).pc \in {"wait", "body", "closing"} \/ TaskOf(y).unl
     /\ RelOf(y) = rel

\* fs.access(dest) of task x resolves in this step: the cache hit
HitsCache(x) ==
  /\ TaskOf(x).pc = "access"
  /\ x[2] \in DOMAIN req'[x[1]].tasks
  /\ req'[x[1]].tasks[x[2]].pc = "done"

\* C22: a materialization takes the destination for a cache hit only when
\* the file holds a whole body and no download to it is still in flight or
\* about to remove it.
C22_CacheHitOnlyAfterCompletedDownload ==
  [][\A x \in Tasks :
        HitsCache(x) =>
           /\ \A k \in 1..NumChunks : disk[RelOf(x)].c[k] # ""
           /\ ~InFlightTo(RelOf(x))]_vars

(***************************************************************************)
(* The account, donation, like, comment and page routes.  They use the     *)
(* database only: db maps a collection's name to its documents, a call is  *)
(* one request to one of these routes.                                     *)
(*   key, arg  what the request carries (session id, email, token, post    *)
(*             id; password, user id)                                      *)
(*   seen      what the handler's query returned                           *)
(*   out       what the response reports                                   *)
(*   after     a Like of the request's post and user existed right after   *)
(*             the request's own write                                     *)
(***************************************************************************)
MaxCalls == 3
CallIds == 1..MaxCalls

NoCall ==
  [kind |-> "idle", pc |-> "idle", status |-> 0, key |-> "", arg |-> "",
   seen |-> "", out |-> "", after |-> FALSE]

NewCall(kind, pc, key, arg) ==
  [NoCall EXCEPT !.kind = kind, !.pc = pc, !.key = key, !.arg = arg]

Respond(c, status, out) == [c EXCEPT !.pc = "responded", !.status = status, !.out = out]

\* no media files and no write-backs take part
InitCalls ==
  /\ req = [r \in CallIds |-> NoCall]
  /\ disk = [p \in Paths |-> Absent]
  /\ wbs = {}
  /\ ops = 0
  /\ firstUrl = [k \in UrlIds \X Bases |-> ""]

(***************************************************************************)
(* POST /webhook.  Stripe delivers an event, and delivers it again when it *)
(* got no 2xx answer in time; deliveries may overlap.                      *)
(***************************************************************************)
Sessions == {"cs_1", "cs_2"}
EventTypes == {"checkout.session.completed", "payment_intent.created"}

\* stripe.webhooks.constructEvent, then the test of event.type
Webhook(r, sigOk, type, session) ==
  /\ Arrives(r)
  /\ ops' = ops + 1
  /\ req' = [req EXCEPT ![r] =
       IF ~sigOk THEN Respond(NewCall("webhook", "run", session, type), 400, "")
       ELSE IF type # "checkout.session.completed"
       THEN Respond(NewCall("webhook", "run", session, type), 200, "received")
       ELSE NewCall("webhook", "create", session, type)]
  /\ UNCHANGED <<db, disk, wbs, firstUrl>>

\* await Donation.create({ ..., reference: session.id, stripeSessionId:
\* session.id, ... }): the schema has no unique index; a database error ends
\* in the outer catch with 500
DonationCreate(r, dbOk) ==
  LET c == req[r]
  IN  /\ c.kind = "webhook" /\ c.pc = "create"
      /\ db' = IF dbOk
               THEN [db EXCEPT !.Donation =
                       Append(@, [stripeSessionId |-> c.key, by |-> r])]
               ELSE db
      /\ req' = [req EXCEPT ![r] =
                   IF dbOk THEN [c EXCEPT !.pc = "mail"] ELSE Respond(c, 500, "")]
      /\ UNCHANGED <<disk, wbs, ops, firstUrl>>

\* the receipt and notification mails, their failure caught and logged;
\* res.json({ received: true })
SendReceipts(r, mailOk) ==
  LET c == req[r]
  IN  /\ c.kind = "webhook" /\ c.pc = "mail"
      /\ req' = [req EXCEPT ![r] =
                   Respond([c EXCEPT !.seen = IF mailOk THEN "sent" ELSE "logged"],
                           200, "received")]
      /\ UNCHANGED <<db, disk, wbs, ops, firstUrl>>

InitDonations ==
  /\ db = [Donation |-> <<>>]
  /\ InitCalls

NextDonations ==
  \/ \E r \in CallIds, sigOk \in BOOLEAN, type \in EventTypes, s \in Sessions :
        Webhook(r, sigOk, type, s)
  \/ \E r \in CallIds, dbOk \in BOOLEAN : DonationCreate(r, dbOk)
  \/ \E r \in CallIds, mailOk \in BOOLEAN : SendReceipts(r, mailOk)

SpecDonations == InitDonations /\ [][NextDonations]_vars

\* C23: no two Donation records carry the same stripeSessionId.
C23_OneDonationPerSession ==
  \A i, j \in DOMAIN db.Donation :
     i # j => db.Donation[i].stripeSessionId # db.Donation[j].stripeSessionId

(***************************************************************************)
(* Accounts.  The User collection is keyed by email (unique index).        *)
(*   live  resetTokenExpires > Date.now()                                  *)
(***************************************************************************)
Emails == {"a@ulf.org", "b@ulf.org"}
Passwords == {"pw1", "pw2"}

\* bcrypt.hash(s, salt) and bcrypt.compare(s, hash): the hash of a hash is
\* not the hash
Hash(s) == "$2a$" \o s
Compare(s, hash) == hash = Hash(s)

\* userSchema.pre("save"): a new or modified passwordHash is hashed
PreSave(passwordHash) == Hash(passwordHash)

\* crypto.randomBytes(32).toString("hex"): no two calls draw the same token
TokenOf(r) == "tok" \o ToString(r)
NoToken == ""
Tokens == {TokenOf(r) : r \in CallIds}

NoUser == [role |-> "none", passwordHash |-> "", resetToken |-> NoToken, live |-> FALSE]

NewUser(role, passwordHash) ==
  [role |-> role, passwordHash |-> PreSave(passwordHash), resetToken |-> NoToken,
   live |-> FALSE]

Admins == {e \in Emails : db.User[e].role = "admin"}

\* POST /auth/seed-admin: const existing = await User.findOne({ email })
SeedAdmin(r, email, password) ==
  /\ Arrives(r)
  /\ ops' = ops + 1
  /\ req' = [req EXCEPT ![r] =
       IF db.User[email].role # "none"
       THEN Respond(NewCall("seed", "run", email, password), 400, "")
       ELSE NewCall("seed", "create", email, password)]
  /\ UNCHANGED <<db, disk, wbs, firstUrl>>

\* await User.create({ ..., passwordHash: password, role: "admin" }); a
\* duplicate email is rejected by the unique index and ends in the catch
SeedCreate(r) ==
  LET c == req[r]
  IN  /\ c.kind = "seed" /\ c.pc = "create"
      /\ IF db.User[c.key].role = "none"
         THEN /\ db' = [db EXCEPT !.User[c.key] = NewUser("admin", c.arg)]
              /\ req' = [req EXCEPT ![r] = Respond(c, 200, "admin")]
         ELSE /\ db' = db
              /\ req' = [req EXCEPT ![r] = Respond(c, 500, "")]
      /\ UNCHANGED <<disk, wbs, ops, firstUrl>>

\* POST /auth/forgot-password: await User.findOne({ email, role: "admin" })
ForgotPassword(r, email) ==
  /\ Arrives(r)
  /\ ops' = ops + 1
  /\ req' = [req EXCEPT ![r] =
       IF db.User[email].role # "admin"
       THEN Respond(NewCall("forgot", "run", email, ""), 404, "")
       ELSE NewCall("forgot", "save", email, "")]
  /\ UNCHANGED <<db, disk, wbs, firstUrl>>

\* user.resetToken = token; user.resetTokenExpires = Date.now() + 15 min;
\* await user.save(); then the mail, whose failure ends in the catch
ForgotSave(r, mailOk) ==
  LET c == req[r]
  IN  /\ c.kind = "forgot" /\ c.pc = "save"
      /\ db' = [db EXCEPT !.User[c.key].resetToken = TokenOf(r),
                          !.User[c.key].live = TRUE]
      /\ req' = [req EXCEPT ![r] =
                   IF mailOk THEN Respond(c, 200, TokenOf(r)) ELSE Respond(c, 500, "")]
      /\ UNCHANGED <<disk, wbs, ops, firstUrl>>

\* fifteen minutes have passed since the token of email was issued
TokenExpires(email) ==
  /\ db.User[email].resetToken # NoToken
  /\ db.User[email].live
  /\ db' = [db EXCEPT !.User[email].live = FALSE]
  /\ UNCHANGED <<disk, req, wbs, ops, firstUrl>>

\* the user that User.findOne({ resetToken: token, resetTokenExpires:
\* { $gt: Date.now() } }) returns, "" for none
FindByToken(token) ==
  LET found == {e \in Emails : db.User[e].resetToken = token /\ db.User[e].live}
  IN  IF found = {} THEN "" ELSE CHOOSE e \in found : TRUE

\* POST /auth/reset-password/:token up to its findOne
ResetPassword(r, token, newPassword) ==
  /\ Arrives(r)
  /\ ops' = ops + 1
  /\ req' = [req EXCEPT ![r] =
       IF FindByToken(token) = ""
       THEN Respond(NewCall("reset", "run", token, newPassword), 400, "")
       ELSE [NewCall("reset", "save", token, newPassword)
               EXCEPT !.seen = FindByToken(token)]]
  /\ UNCHANGED <<db, disk, wbs, firstUrl>>

\* user.passwordHash = newPassword; user.resetToken = undefined;
\* user.resetTokenExpires = undefined; await user.save()
ResetSave(r) ==
  LET c == req[r]
  IN  /\ c.kind = "reset" /\ c.pc = "save"
      /\ db' = [db EXCEPT !.User[c.seen].passwordHash = PreSave(c.arg),
                          !.User[c.seen].resetToken = NoToken,
                          !.User[c.seen].live = FALSE]
      /\ req' = [req EXCEPT ![r] = Respond(c, 200, "reset")]
      /\ UNCHANGED <<disk, wbs, ops, firstUrl>>

\* POST /admin/members with one member { fullname, email, password }:
\* const existing = await User.findOne({ email: m.email }); if (existing)
\* continue
RegisterMember(r, email, password) ==
  /\ Arrives(r)
  /\ ops' = ops + 1
  /\ req' = [req EXCEPT ![r] =
       IF db.User[email].role # "none"
       THEN Respond(NewCall("members", "run", email, password), 200, "0 created")
       ELSE NewCall("members", "create", email, password)]
  /\ UNCHANGED <<db, disk, wbs, firstUrl>>

\* const passwordHash = await bcrypt.hash(m.password || "password123", 10);
\* await User.create({ ..., passwordHash, role: "member" })
RegisterCreate(r) ==
  LET c == req[r]
  IN  /\ c.kind = "members" /\ c.pc = "create"
      /\ IF db.User[c.key].role = "none"
         THEN /\ db' = [db EXCEPT !.User[c.key] = NewUser("member", Hash(c.arg))]
              /\ req' = [req EXCEPT ![r] = Respond(c, 200, "1 created")]
         ELSE /\ db' = db
              /\ req' = [req EXCEPT ![r] = Respond(c, 500, "")]
      /\ UNCHANGED <<disk, wbs, ops, firstUrl>>

\* POST /auth/login: User.findOne({ email }), user.verifyPassword(password)
Login(r, email, password) ==
  /\ Arrives(r)
  /\ ops' = ops + 1
  /\ req' = [req EXCEPT ![r] =
       IF db.User[email].role = "none"
       THEN Respond(NewCall("login", "run", email, password), 401, "")
       ELSE IF ~Compare(password, db.User[email].passwordHash)
       THEN Respond(NewCall("login", "run", email, password), 401, "")
       ELSE Respond(NewCall("login", "run", email, password), 200, "token")]
  /\ UNCHANGED <<db, disk, wbs, firstUrl>>

\* no account yet, or the first admin has been seeded with password pw1
InitAccounts ==
  /\ \/ db = [User |-> [e \in Emails |-> NoUser]]
     \/ db = [User |-> [e \in Emails |->
                 IF e = "a@ulf.org" THEN NewUser("admin", "pw1") ELSE NoUser]]
  /\ InitCalls

NextAccounts ==
  \/ \E r \in CallIds, e \in Emails, p \in Passwords : SeedAdmin(r, e, p)
  \/ \E r \in CallIds : SeedCreate(r)
  \/ \E r \in CallIds, e \in Emails : ForgotPassword(r, e)
  \/ \E r \in CallIds, mailOk \in BOOLEAN : ForgotSave(r, mailOk)
  \/ \E e \in Emails : TokenExpires(e)
  \/ \E r \in CallIds, t \in Tokens, p \in Passwords : ResetPassword(r, t, p)
  \/ \E r \in CallIds : ResetSave(r)
  \/ \E r \in CallIds, e \in Emails, p \in Passwords : RegisterMember(r, e, p)
  \/ \E r \in CallIds : RegisterCreate(r)
  \/ \E r \in CallIds, e \in Emails, p \in Passwords : Login(r, e, p)

SpecAccounts == InitAccounts /\ [][NextAccounts]_vars

\* C24: while an admin account exists, no step of POST /auth/seed-admin
\* creates another account with role admin.
C24_SeedAdminOnlyWithoutAdmin ==
  [][Admins # {} => Admins' \subseteq Admins]_vars

\* a reset with the given token that has answered with success
ResetDone(r, token) ==
  /\ req[r].kind = "reset" /\ req[r].pc = "responded" /\ req[r].status = 200
  /\ req[r].key = token

\* C25: no reset token changes the password more than once.
C25_TokenResetsAtMostOnce ==
  \A t \in Tokens : \A q, r \in CallIds :
     (ResetDone(q, t) /\ ResetDone(r, t)) => q = r

\* C26: a login with the email and password that POST /admin/members created
\* an account with is answered with success.
C26_RegisteredMemberCanLogIn ==
  \A q, r \in CallIds :
     (/\ req[q].kind = "members" /\ req[q].out = "1 created"
      /\ req[r].kind = "login" /\ req[r].pc = "responded" /\ q < r
      /\ req[r].key = req[q].key /\ req[r].arg = req[q].arg)
        => req[r].status = 200

(***************************************************************************)
(* Likes, comments and the cascade of DELETE /posts/:id.  A Like or        *)
(* Comment document is [id, postId, userId], its id the number of the      *)
(* request that created it (0 for one that was there at the start).        *)
(***************************************************************************)
UserIds == {"u1", "u2"}

LikesOf(post, user) == {l \in db.Like : l.postId = post /\ l.userId = user}

\* Like.findOne({ postId, userId }): the document's _id, -1 for null
FindLike(post, user) ==
  IF LikesOf(post, user) = {} THEN -1
  ELSE (CHOOSE l \in LikesOf(post, user) : TRUE).id

\* POST /posts/:id/like up to const existingLike = await Like.findOne(...)
LikeToggle(r, post, user) ==
  /\ Arrives(r)
  /\ ops' = ops + 1
  /\ req' = [req EXCEPT ![r] =
       [NewCall("like", "write", post, user) EXCEPT !.seen = FindLike(post, user)]]
  /\ UNCHANGED <<db, disk, wbs, firstUrl>>

\* if (existingLike) await Like.deleteOne({ _id: existingLike._id })
\* else await Like.create({ postId, userId }); the unique index on
\* (postId, userId) rejects a second document, which ends in the catch
LikeWrite(r) ==
  LET c == req[r]
      mine == [id |-> r, postId |-> c.key, userId |-> c.arg]
      likes == IF c.seen # -1 THEN {l \in db.Like : l.id # c.seen}
               ELSE db.Like \cup {mine}
      dup == c.seen = -1 /\ LikesOf(c.key, c.arg) # {}
  IN  /\ c.kind = "like" /\ c.pc = "write"
      /\ db' = IF dup THEN db ELSE [db EXCEPT !.Like = likes]
      /\ req' = [req EXCEPT ![r] =
           IF dup THEN Respond(c, 500, "")
           ELSE [c EXCEPT !.pc = "count",
                          !.after = \E l \in likes : l.postId = c.key /\ l.userId = c.arg]]
      /\ UNCHANGED <<disk, wbs, ops, firstUrl>>

\* const likesCount = await Like.countDocuments({ postId });
\* ok(res, { liked: !existingLike, likesCount })
LikeCount(r) ==
  LET c == req[r]
  IN  /\ c.kind = "like" /\ c.pc = "count"
      /\ req' = [req EXCEPT ![r] =
           Respond(c, 200, IF c.seen = -1 THEN "liked" ELSE "unliked")]
      /\ UNCHANGED <<db, disk, wbs, ops, firstUrl>>

\* POST /posts/:id/comments: await Comment.create({ postId, ... })
AddComment(r, post, user) ==
  /\ Arrives(r)
  /\ ops' = ops + 1
  /\ db' = [db EXCEPT !.Comment = @ \cup {[id |-> r, postId |-> post, userId |-> user]}]
  /\ req' = [req EXCEPT ![r] = Respond(NewCall("comment", "run", post, user), 201, "")]
  /\ UNCHANGED <<disk, wbs, firstUrl>>

\* DELETE /posts/:id of a post without media: Post.findById
DeletePost(r, post) ==
  /\ Arrives(r)
  /\ ops' = ops + 1
  /\ req' = [req EXCEPT ![r] =
       IF post \notin db.Post
       THEN Respond(NewCall("pdelete", "run", post, ""), 400, "")
       ELSE NewCall("pdelete", "comments", post, "")]
  /\ UNCHANGED <<db, disk, wbs, firstUrl>>

\* await Comment.deleteMany({ postId: post._id })
DeleteComments(r) ==
  LET c == req[r]
  IN  /\ c.kind = "pdelete" /\ c.pc = "comments"
      /\ db' = [db EXCEPT !.Comment = {x \in @ : x.postId # c.key}]
      /\ req' = [req EXCEPT ![r].pc = "likes"]
      /\ UNCHANGED <<disk, wbs, ops, firstUrl>>

\* await Like.deleteMany({ postId: post._id })
DeleteLikes(r) ==
  LET c == req[r]
  IN  /\ c.kind = "pdelete" /\ c.pc = "likes"
      /\ db' = [db EXCEPT !.Like = {x \in @ : x.postId # c.key}]
      /\ req' = [req EXCEPT ![r].pc = "post"]
      /\ UNCHANGED <<disk, wbs, ops, firstUrl>>

\* await post.deleteOne(); ok(res, { message: "Post deleted" })
DeleteDoc(r) ==
  LET c == req[r]
  IN  /\ c.kind = "pdelete" /\ c.pc = "post"
      /\ db' = [db EXCEPT !.Post = @ \ {c.key}]
      /\ req' = [req EXCEPT ![r] = Respond(c, 200, "deleted")]
      /\ UNCHANGED <<disk, wbs, ops, firstUrl>>

\* two posts, nobody has liked or commented yet, or u1 likes p1
InitSocial ==
  /\ \/ db = [Post |-> Posts, Like |-> {}, Comment |-> {}]
     \/ db = [Post |-> Posts, Comment |-> {},
              Like |-> {[id |-> 0, postId |-> "p1", userId |-> "u1"]}]
  /\ InitCalls

NextSocial ==
  \/ \E r \in CallIds, p \in Posts, u \in UserIds : LikeToggle(r, p, u)
  \/ \E r \in CallIds : LikeWrite(r)
  \/ \E r \in CallIds : LikeCount(r)
  \/ \E r \in CallIds, p \in Posts, u \in UserIds : AddComment(r, p, u)
  \/ \E r \in CallIds, p \in Posts : DeletePost(r, p)
  \/ \E r \in CallIds : DeleteComments(r)
  \/ \E r \in CallIds : DeleteLikes(r)
  \/ \E r \in CallIds : DeleteDoc(r)

SpecSocial == InitSocial /\ [][NextSocial]_vars

\* the first half of C27: at most one Like per (postId, userId)
OneLikePerPair ==
  \A l, m \in db.Like : (l.postId = m.postId /\ l.userId = m.userId) => l = m

\* C27: the Like collection holds at most one document per (postId, userId),
\* and a toggle that answers with success reports liked = true exactly when a
\* Like of its post and user existed right after its own write.
C27_ToggleReportsTheStoredState ==
  /\ OneLikePerPair
  /\ \A r \in CallIds :
        (req[r].kind = "like" /\ req[r].pc = "responded" /\ req[r].status = 200)
           => (req[r].out = "liked" <=> req[r].after)

\* C28: once DELETE /posts/:id has answered with success, no Comment and no
\* Like references the deleted post.
C28_NoOrphansAfterDelete ==
  \A r \in CallIds :
     (req[r].kind = "pdelete" /\ req[r].pc = "responded" /\ req[r].status = 200)
        => /\ \A x \in db.Comment : x.postId # req[r].key
           /\ \A x \in db.Like : x.postId # req[r].key

(***************************************************************************)
(* The About and Contact pages: routes/about.js and the contact routes do  *)
(* the same find-or-create.  A document is [id, content], its id the       *)
(* number of the request that created it.                                  *)
(***************************************************************************)
Pages == {"About", "Contact"}

\* Model.findOne(): the _id of a document of the collection, -1 for null
FindPage(page) ==
  IF db[page] = {} THEN -1 ELSE (CHOOSE d \in db[page] : TRUE).id

\* GET /about, GET /contact and PUT /about, PUT /contact (by an admin) up to
\* let doc = await Model.findOne(); the GET answers with the document found
PageRequest(r, kind, page) ==
  /\ Arrives(r)
  /\ kind \in {"get", "pput"}
  /\ ops' = ops + 1
  /\ req' = [req EXCEPT ![r] =
       IF FindPage(page) = -1
       THEN [NewCall(kind, "create", page, "") EXCEPT !.seen = -1]
       ELSE IF kind = "get"
       THEN Respond([NewCall(kind, "run", page, "") EXCEPT !.seen = FindPage(page)],
                    200, "found")
       ELSE [NewCall(kind, "save", page, "") EXCEPT !.seen = FindPage(page)]]
  /\ UNCHANGED <<db, disk, wbs, firstUrl>>

\* if (!doc) doc = await Model.create({ ... }) (new About(...) and save in
\* PUT /about): one more document, whatever the collection holds by now
PageCreate(r) ==
  LET c == req[r]
  IN  /\ c.kind \in {"get", "pput"} /\ c.pc = "create"
      /\ db' = [db EXCEPT ![c.key] =
                  @ \cup {[id |-> r,
                           content |-> IF c.kind = "get" THEN "starter" ELSE "edited"]}]
      /\ req' = [req EXCEPT ![r] = Respond(c, 200, "created")]
      /\ UNCHANGED <<disk, wbs, ops, firstUrl>>

\* else { doc.content = content; ... } await doc.save()
PageSave(r) ==
  LET c == req[r]
  IN  /\ c.kind = "pput" /\ c.pc = "save"
      /\ db' = [db EXCEPT ![c.key] =
                  {IF d.id = c.seen THEN [d EXCEPT !.content = "edited"] ELSE d : d \in @}]
      /\ req' = [req EXCEPT ![r] = Respond(c, 200, "updated")]
      /\ UNCHANGED <<disk, wbs, ops, firstUrl>>

\* neither page has been asked for yet
InitPages ==
  /\ db = [About |-> {}, Contact |-> {}]
  /\ InitCalls

NextPages ==
  \/ \E r \in CallIds, kind \in {"get", "pput"}, page \in Pages :
        PageRequest(r, kind, page)
  \/ \E r \in CallIds : PageCreate(r)
  \/ \E r \in CallIds : PageSave(r)

SpecPages == InitPages /\ [][NextPages]_vars

\* C29: there is at most one About document and at most one Contact
\* document.
C29_PagesAreSingletons ==
  \A page \in Pages : Cardinality(db[page]) <= 1

\* C30: a 3xx response with a Location header that arrives while hops remain
\* is followed by the next request, and a fetch that ended with a 200 has
\* the served body in the destination file.
C30_ShortRedirectChainSucceeds ==
  \A x \in Tasks :
     /\ (TaskOf(x).st >= 300 /\ TaskOf(x).st < 400 /\ TaskOf(x).loc
           /\ TaskOf(x).left > 0)
          => TaskOf(x).pc = "wait"
     /\ (TaskOf(x).pc = "done" /\ TaskOf(x).closed)
          => (TaskOf(x).st = 200 /\ disk[RelOf(x)] = FullFile(TaskOf(x).src))

====
